---- MODULE Spec2Model ----
(***************************************************************************)
(* Model of reverie/backend_server/persona/prompt_template/gpt_structure.py *)
(* : the request wrappers (GPT4_request, ChatGPT_request, GPT_request) and  *)
(* the four validated-retry entry points built on them                      *)
(* (GPT4_safe_generate_response, ChatGPT_safe_generate_response,            *)
(* ChatGPT_safe_generate_response_OLD, safe_generate_response).             *)
(*                                                                         *)
(* A Python str is a sequence of text chunks (tokens); a Python value is a *)
(* record [type, text].  One run of one entry point is one behaviour: Init *)
(* picks the entry point and its arguments, each action is one step of the *)
(* loop body.  The variables reply, raw, log, lastCall, vArg, cArg and the *)
(* counters record what the run did; the code does not read them.          *)
(*                                                                         *)
(* The other functions of the file, and validate_setup.main, have their    *)
(* own variables and their own specifications (SpecPrompt, ...); while one *)
(* specification runs, the variables of the others stay at their idle      *)
(* values.                                                                 *)
(***************************************************************************)
EXTENDS Integers, Sequences, FiniteSets, TLC

VARIABLES
  entry,               \* the entry point this run executes
  repeat,              \* argument repeat
  fail_safe_response,  \* argument fail_safe_response
  prompt,              \* local prompt (after the frame is added, if any)
  i,                   \* loop variable of "for i in range(repeat)"
  pc,                  \* position in the function body
  curr_gpt_response,   \* local curr_gpt_response
  ret,                 \* the value returned to the caller (once pc = "done")
  outcome,             \* how the run ended: "none", "success", "fail_safe", "raised"
  reply,               \* what the endpoint did on the latest create() call
  raw,                 \* what the latest *_request call returned
  log,                 \* per attempt: what happened at each stage
  lastCall,            \* the latest external call made by the run
  vArg,                \* the func_validate call of the current attempt, if any
  cArg,                \* the func_clean_up call of the current attempt, if any
  nCreate,             \* number of client.chat.completions.create calls
  nValidate,           \* number of func_validate calls
  nCleanup             \* number of func_clean_up calls

vars == <<entry, repeat, fail_safe_response, prompt, i, pc, curr_gpt_response,
          ret, outcome, reply, raw, log, lastCall, vArg, cArg,
          nCreate, nValidate, nCleanup>>

VARIABLES
  prompt_file,         \* generate_prompt: the text read from prompt_lib_file
  curr_input,          \* generate_prompt: argument curr_input
  gp_pc,               \* generate_prompt: "idle", "call" or "done"
  gp_ret               \* generate_prompt: the value returned

promptVars == <<prompt_file, curr_input, gp_pc, gp_ret>>

VARIABLES
  emb_text,            \* get_embedding: argument text
  emb_local,           \* get_embedding: local text, as rebound in the body
  emb_pc,              \* get_embedding: "idle", "call", "request", "done", "raised"
  emb_sent,            \* get_embedding: the input texts sent to the endpoint
  emb_ret              \* get_embedding: what the call returned or raised

embedVars == <<emb_text, emb_local, emb_pc, emb_sent, emb_ret>>

VARIABLES
  gpt_parameter,       \* GPT_request: argument gpt_parameter, a dict
  gr_pc,               \* GPT_request: "idle", "call", "create", "done", "raised"
  gr_sent,             \* GPT_request: the keyword arguments of each create() call
  gr_reply,            \* GPT_request: what the endpoint did
  gr_ret               \* GPT_request: what the call returned or raised

requestVars == <<gpt_parameter, gr_pc, gr_sent, gr_reply, gr_ret>>

VARIABLES
  setup_env,           \* validate_setup: the interpreter, packages, utils.py, endpoint
  results,             \* validate_setup.main: local results
  vs_pc,               \* validate_setup.main: position in the function body
  vs_calls,            \* validate_setup.main: the checks and requests made, in order
  vs_exit              \* validate_setup.main: the value returned

setupVars == <<setup_env, results, vs_pc, vs_calls, vs_exit>>

\* The variables of the other specifications, as the retry engine sees them.
rest == <<promptVars, embedVars, requestVars, setupVars>>

----------------------------------------------------------------------------
(* Bounds *)

MaxRepeat == 3

----------------------------------------------------------------------------
(* Python values *)

PyNone == [type |-> "NoneType", text |-> <<>>]
PyFalse == [type |-> "bool", text |-> <<"False">>]
PyStr(t) == [type |-> "str", text |-> t]
PyDict(t) == [type |-> "dict", text |-> t]
PyExc(kind) == [type |-> "exception", text |-> <<kind>>]

\* A call either returns a value or raises.
Returned(v) == [raised |-> FALSE, value |-> v]
Raised(kind) == [raised |-> TRUE, value |-> PyExc(kind)]

----------------------------------------------------------------------------
(* Text chunks *)

WS == " "
LBRACE == "{"
RBRACE == "}"
COLON == ":"
COMMA == ","
QOutput == "\"output\""
Q42 == "\"42\""
Q7 == "\"7\""
StrLit == {QOutput, Q42, Q7}

\* The str a JSON string literal denotes.
StrVal(tok) ==
  CASE tok = QOutput -> <<"output">>
    [] tok = Q42 -> <<"42">>
    [] tok = Q7 -> <<"7">>

ChatGPTError == <<"ChatGPT ERROR">>
TokenLimitExceeded == <<"TOKEN LIMIT EXCEEDED">>

----------------------------------------------------------------------------
(* str.strip, str.rfind, slicing *)

RECURSIVE LStrip(_)
LStrip(s) == IF s # <<>> /\ Head(s) = WS THEN LStrip(Tail(s)) ELSE s

RECURSIVE RStrip(_)
RStrip(s) ==
  IF s # <<>> /\ s[Len(s)] = WS THEN RStrip(SubSeq(s, 1, Len(s) - 1)) ELSE s

Strip(s) == RStrip(LStrip(s))

\* s.rfind('}'): the 0-based index of the last closing brace, or -1.
RFind(s) ==
  LET hits == {j \in 1..Len(s) : s[j] = RBRACE}
  IN IF hits = {} THEN -1
     ELSE (CHOOSE j \in hits : \A k \in hits : k <= j) - 1

\* s[:end]
SliceTo(s, end) == SubSeq(s, 1, end)

----------------------------------------------------------------------------
(* json.loads on the chunk alphabet: a value is a string literal or an      *)
(* object whose members are  string : value , separated by commas;          *)
(* whitespace is allowed around every token; a repeated key keeps the last  *)
(* value.                                                                   *)

RECURSIVE SkipWs(_, _)
SkipWs(s, p) == IF p <= Len(s) /\ s[p] = WS THEN SkipWs(s, p + 1) ELSE p

NoWs(s) == SelectSeq(s, LAMBDA c : c # WS)

PFail == [ok |-> FALSE, next |-> 0, val |-> PyNone, has |-> FALSE, out |-> PyNone]
POk(n, v, h, o) == [ok |-> TRUE, next |-> n, val |-> v, has |-> h, out |-> o]

RECURSIVE ParseValue(_, _)
RECURSIVE ParseMembers(_, _, _, _, _)

\* Parses one value starting at position p; for an object, has/out give the
\* member "output".
ParseValue(s, p) ==
  IF p > Len(s) THEN PFail
  ELSE IF s[p] \in StrLit THEN POk(p + 1, PyStr(StrVal(s[p])), FALSE, PyNone)
  ELSE IF s[p] = LBRACE THEN
    LET q == SkipWs(s, p + 1)
    IN IF q <= Len(s) /\ s[q] = RBRACE
         THEN POk(q + 1, PyDict(NoWs(SubSeq(s, p, q))), FALSE, PyNone)
         ELSE ParseMembers(s, p, q, FALSE, PyNone)
  ELSE PFail

\* Parses the members of the object opened at start, from the key at p.
ParseMembers(s, start, p, has, out) ==
  IF p > Len(s) \/ s[p] \notin StrLit THEN PFail
  ELSE
    LET c == SkipWs(s, p + 1)
    IN IF c > Len(s) \/ s[c] # COLON THEN PFail
       ELSE
         LET v == ParseValue(s, SkipWs(s, c + 1))
         IN IF ~v.ok THEN PFail
            ELSE
              LET e == SkipWs(s, v.next)
                  isOut == StrVal(s[p]) = <<"output">>
                  has2 == has \/ isOut
                  out2 == IF isOut THEN v.val ELSE out
              IN IF e > Len(s) THEN PFail
                 ELSE IF s[e] = RBRACE
                   THEN POk(e + 1, PyDict(NoWs(SubSeq(s, start, e))), has2, out2)
                 ELSE IF s[e] = COMMA
                   THEN ParseMembers(s, start, SkipWs(s, e + 1), has2, out2)
                 ELSE PFail

\* json.loads(s): the whole text must be one value (else JSONDecodeError).
JsonLoads(s) ==
  LET v == ParseValue(s, SkipWs(s, 1))
  IN IF v.ok /\ SkipWs(s, v.next) = Len(s) + 1 THEN v ELSE PFail

\* json.loads(s)["output"]
JsonLoadsOutput(s) ==
  LET v == JsonLoads(s)
  IN IF ~v.ok THEN Raised("JSONDecodeError")
     ELSE IF v.val.type # "dict" THEN Raised("TypeError")
     ELSE IF ~v.has THEN Raised("KeyError")
     ELSE Returned(v.out)

\* Lines 189-191 (and 149-151): cut after the last closing brace, parse, read
\* the field "output".
ExtractOutput(response) ==
  LET end_index == RFind(response) + 1
  IN JsonLoadsOutput(SliceTo(response, end_index))

----------------------------------------------------------------------------
(* The endpoint: what one client.chat.completions.create call can do *)

\* Exception classes a create() call can raise, each with its base classes
\* (RateLimitError and APIConnectionError derive from APIError); "Exception"
\* stands for any other exception, e.g. the IndexError of an empty choices
\* list.
FaultKinds == {"RateLimitError", "APIConnectionError", "APIError", "Exception"}

IsInstance(kind, cls) ==
  CASE kind = "RateLimitError" -> cls \in {"RateLimitError", "APIError", "Exception"}
    [] kind = "APIConnectionError" -> cls \in {"APIConnectionError", "APIError", "Exception"}
    [] kind = "APIError" -> cls \in {"APIError", "Exception"}
    [] kind = "Exception" -> cls = "Exception"
    [] OTHER -> FALSE

\* Completion texts the endpoint may answer with: optional leading prose, a
\* payload (well-formed or not), optional trailing prose.
Leads == {<<>>, <<WS>>, <<"Sure,", WS, "here", WS>>}
Trails == {<<>>, <<WS>>, <<WS, "Thanks!">>}
\* Well-formed object payloads that hold the field "output", each with the
\* value of that field.
OutputPayloadValues ==
  { <<(<<LBRACE, QOutput, COLON, Q7, RBRACE>>), PyStr(<<"7">>)>>,
    <<(<<LBRACE, QOutput, COLON, WS, Q42, RBRACE>>), PyStr(<<"42">>)>>,
    <<(<<LBRACE, Q7, COLON, Q42, COMMA, WS, QOutput, COLON, Q7, RBRACE>>),
      PyStr(<<"7">>)>>,
    <<(<<LBRACE, QOutput, COLON, LBRACE, Q7, COLON, Q42, RBRACE, RBRACE>>),
      PyDict(<<LBRACE, Q7, COLON, Q42, RBRACE>>)>> }
OutputPayloads == {pv[1] : pv \in OutputPayloadValues}
\* Payloads that are empty, are no object, lack the field or do not parse.
OtherPayloads ==
  { <<>>,
    <<"no", WS, "answer">>,
    <<Q42>>,
    <<LBRACE, RBRACE>>,
    <<LBRACE, Q7, COLON, Q42, RBRACE>>,
    <<LBRACE, QOutput, COLON, Q42>>,
    <<LBRACE, QOutput, Q42, RBRACE>> }
Responses ==
  { l \o p \o t : l \in Leads, p \in OutputPayloads \cup OtherPayloads, t \in Trails }

\* message.content is a str, or None.
Contents == {PyNone} \cup {PyStr(t) : t \in Responses}

Replies ==
  {[fault |-> f, content |-> PyNone] : f \in FaultKinds}
    \cup {[fault |-> "none", content |-> c] : c \in Contents}

----------------------------------------------------------------------------
(* The request wrappers *)

\* GPT4_request without its last clause, except Exception.
GPT4_requestNoCatchAll(rep) ==
  IF rep.fault = "none" THEN Returned(rep.content)
  ELSE IF IsInstance(rep.fault, "RateLimitError") THEN Returned(PyStr(ChatGPTError))
  ELSE IF IsInstance(rep.fault, "APIConnectionError") THEN Returned(PyStr(ChatGPTError))
  ELSE IF IsInstance(rep.fault, "APIError") THEN Returned(PyStr(ChatGPTError))
  ELSE Raised(rep.fault)

\* GPT4_request: the completion text, or the sentinel from whichever except
\* clause matches; the last clause catches every Exception.
GPT4_request(rep) ==
  IF rep.fault = "none" THEN Returned(rep.content)
  ELSE IF IsInstance(rep.fault, "RateLimitError") THEN Returned(PyStr(ChatGPTError))
  ELSE IF IsInstance(rep.fault, "APIConnectionError") THEN Returned(PyStr(ChatGPTError))
  ELSE IF IsInstance(rep.fault, "APIError") THEN Returned(PyStr(ChatGPTError))
  ELSE IF IsInstance(rep.fault, "Exception") THEN Returned(PyStr(ChatGPTError))
  ELSE Raised(rep.fault)

\* ChatGPT_request without its last clause, except Exception.
ChatGPT_requestNoCatchAll(rep) ==
  IF rep.fault = "none" THEN Returned(rep.content)
  ELSE IF IsInstance(rep.fault, "RateLimitError") THEN Returned(PyStr(ChatGPTError))
  ELSE IF IsInstance(rep.fault, "APIConnectionError") THEN Returned(PyStr(ChatGPTError))
  ELSE IF IsInstance(rep.fault, "APIError") THEN Returned(PyStr(ChatGPTError))
  ELSE Raised(rep.fault)

\* ChatGPT_request: the same clauses as GPT4_request.
ChatGPT_request(rep) ==
  IF rep.fault = "none" THEN Returned(rep.content)
  ELSE IF IsInstance(rep.fault, "RateLimitError") THEN Returned(PyStr(ChatGPTError))
  ELSE IF IsInstance(rep.fault, "APIConnectionError") THEN Returned(PyStr(ChatGPTError))
  ELSE IF IsInstance(rep.fault, "APIError") THEN Returned(PyStr(ChatGPTError))
  ELSE IF IsInstance(rep.fault, "Exception") THEN Returned(PyStr(ChatGPTError))
  ELSE Raised(rep.fault)

\* GPT_request: one clause, except Exception, with its own sentinel.
GPT_request(rep) ==
  IF rep.fault = "none" THEN Returned(rep.content)
  ELSE IF IsInstance(rep.fault, "Exception") THEN Returned(PyStr(TokenLimitExceeded))
  ELSE Raised(rep.fault)

----------------------------------------------------------------------------
(* The retry entry points *)

GPT4Safe == "GPT4_safe_generate_response"
ChatGPTSafe == "ChatGPT_safe_generate_response"
ChatGPTSafeOLD == "ChatGPT_safe_generate_response_OLD"
SafeGenerate == "safe_generate_response"
Entries == {GPT4Safe, ChatGPTSafe, ChatGPTSafeOLD, SafeGenerate}

\* The request wrapper each entry point calls.
RequestOf(e, rep) ==
  CASE e = GPT4Safe -> GPT4_request(rep)
    [] e \in {ChatGPTSafe, ChatGPTSafeOLD} -> ChatGPT_request(rep)
    [] e = SafeGenerate -> GPT_request(rep)

\* Variants: the _OLD entry point without its try block; no try block at all.
HasTryNotOLD(e) == e \in {GPT4Safe, ChatGPTSafe}
HasTryNone(e) == FALSE
\* The entry points whose loop body is inside try: ... except: pass.
HasTry(e) == e \in {GPT4Safe, ChatGPTSafe, ChatGPTSafeOLD}

\* The entry points that call .strip() on the response.
Strips(e) == e \in {GPT4Safe, ChatGPTSafe, ChatGPTSafeOLD}

\* Variant: the response is handed to validate as it is, as in the _OLD
\* entry point.
ExtractsNowhere(e) == FALSE
\* The entry points that extract the field "output" from the response.
Extracts(e) == e \in {GPT4Safe, ChatGPTSafe}

\* Variant: range(repeat + 1).
RangeHasNextOffByOne(n, rep) == n <= rep
\* for i in range(repeat): is there another iteration.
RangeHasNext(n, rep) == n < rep

\* Variant: the if is missing, cleanup follows every validate call that returns.
AcceptsAnything(v) == TRUE
\* if func_validate(...): on a returned value v.
Accepts(v) == v = "true"

\* Variant: the return is missing, the loop goes on after cleanup.
ReturnsAfterCleanUpNever == FALSE
\* return func_clean_up(...): the run ends when cleanup returns.
ReturnsAfterCleanUp == TRUE

\* What the entry point returns after the loop.
FailSafeReturn(e, fs) == IF e \in {GPT4Safe, ChatGPTSafe} THEN PyFalse ELSE fs

\* The result of the caller's cleanup function on a candidate: opaque to the
\* engine, so a value that names the candidate it was computed from.
CleanUpResult(cand) == [type |-> "Result", text |-> <<cand.type>> \o cand.text]

UserPrompt == <<"What is six times seven?">>
ExampleOutput == <<"42">>
SpecialInstruction == <<"Answer with a number.">>

\* The prompt the loop uses: framed by the two extracting entry points.
BuildPrompt(e, p) ==
  LET tail == <<"\n\"\"\"\n", "Output the response to the prompt above in json. ">>
                \o SpecialInstruction
                \o <<"\n", "Example output json:\n", "{\"output\": \"">>
                \o ExampleOutput \o <<"\"}">>
  IN CASE e = GPT4Safe -> <<"GPT-3 Prompt:\n\"\"\"\n">> \o p \o tail
       [] e = ChatGPTSafe -> <<"\"\"\"\n">> \o p \o tail
       [] OTHER -> p

FailSafeValues == {PyStr(<<"error">>), PyStr(<<"rest">>)}

NoCall == [cand |-> PyNone, prompt |-> <<>>, attempt |-> 0, result |-> "none"]
NewAttempt(t) ==
  [transport |-> t, extract |-> "none", validate |-> "none", cleanup |-> "none"]
SetLast(l, field, v) == [l EXCEPT ![Len(l)] = [@ EXCEPT ![field] = v]]

\* generate_prompt is not running.
PromptIdle ==
  /\ prompt_file = <<>>
  /\ curr_input = [type |-> "list", items |-> <<>>]
  /\ gp_pc = "idle"
  /\ gp_ret = <<>>

\* get_embedding is not running.
EmbedIdle ==
  /\ emb_text = <<>>
  /\ emb_local = <<>>
  /\ emb_pc = "idle"
  /\ emb_sent = <<>>
  /\ emb_ret = PyNone

\* GPT_request is not running on its own.
RequestIdle ==
  /\ gpt_parameter = <<>>
  /\ gr_pc = "idle"
  /\ gr_sent = <<>>
  /\ gr_reply = [fault |-> "none", content |-> PyNone]
  /\ gr_ret = PyNone

\* validate_setup.main is not running.
SetupIdle ==
  /\ setup_env = <<>>
  /\ results = <<>>
  /\ vs_pc = "idle"
  /\ vs_calls = <<>>
  /\ vs_exit = PyNone

RestIdle == PromptIdle /\ EmbedIdle /\ RequestIdle /\ SetupIdle

Init ==
  /\ RestIdle
  /\ entry \in Entries
  /\ repeat \in 1..MaxRepeat
  /\ fail_safe_response \in FailSafeValues
  /\ prompt = BuildPrompt(entry, UserPrompt)
  /\ i = 0
  /\ pc = "loop"
  /\ curr_gpt_response = PyNone
  /\ ret = PyNone
  /\ outcome = "none"
  /\ reply = [fault |-> "none", content |-> PyNone]
  /\ raw = PyNone
  /\ log = <<>>
  /\ lastCall = "none"
  /\ vArg = NoCall
  /\ cArg = NoCall
  /\ nCreate = 0
  /\ nValidate = 0
  /\ nCleanup = 0

\* The end of the loop body, or except: pass: on to the next iteration.
Continue == pc' = "loop" /\ i' = i + 1 /\ UNCHANGED <<ret, outcome>>

\* An exception leaves the entry point.
Propagate == pc' = "raised" /\ outcome' = "raised" /\ UNCHANGED <<i, ret>>

\* An exception raised in the loop body.
Except == IF HasTry(entry) THEN Continue ELSE Propagate

\* curr_gpt_response = X_request(prompt)[.strip()]
Request ==
  /\ pc = "loop"
  /\ RangeHasNext(i, repeat)
  /\ \E rep \in Replies :
       LET r == RequestOf(entry, rep)
       IN /\ reply' = rep
          /\ raw' = r.value
          /\ log' = Append(log, NewAttempt(IF rep.fault = "none" THEN "ok" ELSE "fail"))
          /\ IF r.raised
               THEN Except /\ UNCHANGED curr_gpt_response
             ELSE IF ~Strips(entry)
               THEN /\ curr_gpt_response' = r.value
                    /\ pc' = "validate"
                    /\ UNCHANGED <<i, ret, outcome>>
             ELSE IF r.value.type # "str"
               THEN Except /\ UNCHANGED curr_gpt_response
             ELSE /\ curr_gpt_response' = PyStr(Strip(r.value.text))
                  /\ pc' = IF Extracts(entry) THEN "extract" ELSE "validate"
                  /\ UNCHANGED <<i, ret, outcome>>
  /\ nCreate' = nCreate + 1
  /\ lastCall' = "transport"
  /\ vArg' = NoCall
  /\ cArg' = NoCall
  /\ UNCHANGED <<entry, repeat, fail_safe_response, prompt, nValidate, nCleanup>>
  /\ UNCHANGED rest

\* The texts a request can hand to the extraction, stripped or not.
ExtractTexts ==
  LET T == Responses \cup {ChatGPTError, TokenLimitExceeded}
  IN T \cup {Strip(t) : t \in T}

\* The extraction of each of these texts, computed once.
ExtractOutputOf == [t \in ExtractTexts |-> ExtractOutput(t)]

\* end_index = ...rfind('}') + 1; ...[:end_index]; json.loads(...)["output"]
Extract ==
  /\ pc = "extract"
  /\ curr_gpt_response.text \in ExtractTexts
  /\ \E r \in {ExtractOutputOf[curr_gpt_response.text]} :
       IF r.raised
         THEN /\ Except
              /\ log' = SetLast(log, "extract", "raise")
              /\ UNCHANGED curr_gpt_response
         ELSE /\ curr_gpt_response' = r.value
              /\ log' = SetLast(log, "extract", "ok")
              /\ pc' = "validate"
              /\ UNCHANGED <<i, ret, outcome>>
  /\ UNCHANGED <<entry, repeat, fail_safe_response, prompt, reply, raw, lastCall,
                 vArg, cArg, nCreate, nValidate, nCleanup>>
  /\ UNCHANGED rest

\* if func_validate(curr_gpt_response, prompt=prompt): the caller's function
\* returns a true value, a false value, or raises.
Validate ==
  /\ pc = "validate"
  /\ \E v \in {"true", "false", "raise"} :
       /\ vArg' = [cand |-> curr_gpt_response, prompt |-> prompt,
                   attempt |-> i + 1, result |-> v]
       /\ log' = SetLast(log, "validate", v)
       /\ IF v = "raise" THEN Except
          ELSE IF Accepts(v) THEN pc' = "cleanup" /\ UNCHANGED <<i, ret, outcome>>
          ELSE Continue
  /\ nValidate' = nValidate + 1
  /\ lastCall' = "validate"
  /\ UNCHANGED <<entry, repeat, fail_safe_response, prompt, curr_gpt_response,
                 reply, raw, cArg, nCreate, nCleanup>>
  /\ UNCHANGED rest

\* return func_clean_up(curr_gpt_response, prompt=prompt): the caller's
\* function returns its result, or raises.
CleanUp ==
  /\ pc = "cleanup"
  /\ \E c \in {"ret", "raise"} :
       /\ cArg' = [cand |-> curr_gpt_response, prompt |-> prompt,
                   attempt |-> i + 1, result |-> c]
       /\ log' = SetLast(log, "cleanup", c)
       /\ IF c = "raise" THEN Except
          ELSE IF ReturnsAfterCleanUp
            THEN /\ ret' = CleanUpResult(curr_gpt_response)
                 /\ outcome' = "success"
                 /\ pc' = "done"
                 /\ i' = i
          ELSE Continue
  /\ nCleanup' = nCleanup + 1
  /\ lastCall' = "cleanup"
  /\ UNCHANGED <<entry, repeat, fail_safe_response, prompt, curr_gpt_response,
                 reply, raw, vArg, nCreate, nValidate>>
  /\ UNCHANGED rest

\* The loop is over: return False / return fail_safe_response.
Exhausted ==
  /\ pc = "loop"
  /\ ~RangeHasNext(i, repeat)
  /\ ret' = FailSafeReturn(entry, fail_safe_response)
  /\ outcome' = "fail_safe"
  /\ pc' = "done"
  /\ UNCHANGED <<entry, repeat, fail_safe_response, prompt, i, curr_gpt_response,
                 reply, raw, log, lastCall, vArg, cArg, nCreate, nValidate, nCleanup>>
  /\ UNCHANGED rest

Next == Request \/ Extract \/ Validate \/ CleanUp \/ Exhausted

Spec == Init /\ [][Next]_vars

\* A call of one of the entry points that extract the "output" payload.
InitExtracting ==
  /\ RestIdle
  /\ entry \in {e \in Entries : Extracts(e)}
  /\ repeat \in 1..MaxRepeat
  /\ fail_safe_response \in FailSafeValues
  /\ prompt = BuildPrompt(entry, UserPrompt)
  /\ i = 0
  /\ pc = "loop"
  /\ curr_gpt_response = PyNone
  /\ ret = PyNone
  /\ outcome = "none"
  /\ reply = [fault |-> "none", content |-> PyNone]
  /\ raw = PyNone
  /\ log = <<>>
  /\ lastCall = "none"
  /\ vArg = NoCall
  /\ cArg = NoCall
  /\ nCreate = 0
  /\ nValidate = 0
  /\ nCleanup = 0

\* A call that has started runs on: each statement of the loop is executed
\* once control reaches it, and every callback returns or raises.
SpecFair == InitExtracting /\ [][Next]_vars /\ WF_vars(Next)

----------------------------------------------------------------------------
(* Properties *)

Attempts == 1..Len(log)
LastAttempt == log[Len(log)]
Extracting == {GPT4Safe, ChatGPTSafe}
WithTry == {GPT4Safe, ChatGPTSafe, ChatGPTSafeOLD}

\* C1: when every attempt of ChatGPT_safe_generate_response or
\* GPT4_safe_generate_response fails, the call returns exactly the caller's
\* fail_safe_response.
C1_FailSafeValueReturned ==
  (entry \in Extracting /\ pc = "done" /\ outcome = "fail_safe")
    => ret = fail_safe_response

\* Every func_validate call of the run so far returned false.
ValidateAlwaysFalse ==
  \A k \in Attempts : log[k].validate \in {"none", "false"}

\* C2: with a validation function that returns false on every call, a run
\* with repeat = N makes exactly N transport calls before it returns: never
\* more than N on the way, N when it has returned, and it returns (fail-safe)
\* rather than raising.
C2_RetryBound ==
  ValidateAlwaysFalse =>
    /\ nCreate <= repeat
    /\ nCreate = Len(log)
    /\ pc # "raised"
    /\ pc = "done" => (nCreate = repeat /\ outcome = "fail_safe")

C2_Witness ==
  /\ entry = ChatGPTSafe
  /\ pc = "done"
  /\ repeat = MaxRepeat
  /\ nValidate = repeat
  /\ ValidateAlwaysFalse

\* Attempt k is the first one whose candidate func_validate accepted.
FirstAccepted(k) ==
  /\ log[k].validate = "true"
  /\ \A j \in 1..(k - 1) : log[j].validate # "true"

\* The candidate the entry point derives from a request's return value.
CandidateOf(e, r) ==
  IF Extracts(e) THEN ExtractOutput(Strip(r.text)).value
  ELSE IF Strips(e) THEN PyStr(Strip(r.text))
  ELSE r

\* C3: if attempt k is the first whose candidate is accepted by validate and
\* cleanup returns normally, then exactly k transport calls occur, none
\* after the k-th, and the value returned is cleanup's result on the k-th
\* candidate.
C3_EarlySuccess ==
  \A k \in Attempts :
    (FirstAccepted(k) /\ log[k].cleanup = "ret") =>
      /\ Len(log) = k
      /\ nCreate = k
      /\ pc = "done"
      /\ outcome = "success"
      /\ cArg.attempt = k
      /\ cArg.cand = CandidateOf(entry, raw)
      /\ ret = CleanUpResult(cArg.cand)

C3_Witness ==
  /\ entry = ChatGPTSafe
  /\ repeat = MaxRepeat
  /\ Len(log) = 2
  /\ log[1].validate = "false"
  /\ FirstAccepted(2)
  /\ log[2].cleanup = "ret"
  /\ pc = "done"

\* C4: no exception ever propagates out of ChatGPT_safe_generate_response or
\* GPT4_safe_generate_response: the run is never ended by an exception, and
\* a run whose transport call failed on every attempt ends by returning,
\* after repeat attempts.
C4_NeverRaises ==
  entry \in Extracting =>
    /\ pc # "raised"
    /\ outcome # "raised"
    /\ pc \in {"loop", "extract", "validate", "cleanup", "done"}
    /\ (pc = "done" /\ \A k \in Attempts : log[k].transport = "fail")
         => (outcome = "fail_safe" /\ Len(log) = repeat)

C4_Witness ==
  /\ entry = ChatGPTSafe
  /\ pc = "done"
  /\ repeat = MaxRepeat
  /\ Len(log) = repeat
  /\ \A k \in Attempts : log[k].transport = "fail"

\* C5: in the three entry points with a try block, a validate call that
\* raises is handled exactly like one that returns false: the attempt ends,
\* cleanup is not called, the loop goes on to the next iteration, and nothing
\* is returned or raised by that step.
C5_ValidateRaiseLikeFalse ==
  [][(entry \in WithTry /\ pc = "validate" /\ vArg'.result \in {"raise", "false"})
       => /\ pc' = "loop"
          /\ i' = i + 1
          /\ nCleanup' = nCleanup
          /\ cArg' = cArg
          /\ LastAttempt'.cleanup = "none"
          /\ ret' = ret
          /\ outcome' = "none"
          /\ nCreate' = nCreate]_vars

C5_Witness ==
  /\ entry = ChatGPTSafeOLD
  /\ Len(log) = 2
  /\ log[1].validate = "raise"
  /\ log[1].cleanup = "none"
  /\ pc = "validate"

CleanupReturned == {k \in Attempts : log[k].cleanup = "ret"}
CleanupRaised == {k \in Attempts : log[k].cleanup = "raise"}

\* C6 as stated: in ChatGPT_safe_generate_response and
\* GPT4_safe_generate_response the number of cleanup invocations is 0 when
\* the run ends fail-safe, exactly 1 when it ends in success, never 2 or more.
C6_CleanupInvokedAtMostOnce ==
  entry \in Extracting =>
    /\ nCleanup <= 1
    /\ (pc = "done" /\ outcome = "fail_safe") => nCleanup = 0
    /\ (pc = "done" /\ outcome = "success") => nCleanup = 1

\* C6 amended: cleanup is invoked at most once per attempt; the number of
\* cleanup invocations that return normally is 0 when the run ends fail-safe
\* and exactly 1, the last call of the run, when it ends in success; every
\* other cleanup invocation of the run raised.
C6_CleanupReturnsAtMostOnce ==
  entry \in Extracting =>
    /\ nCleanup = Cardinality(CleanupReturned) + Cardinality(CleanupRaised)
    /\ nCleanup <= Len(log)
    /\ Cardinality(CleanupReturned) <= 1
    /\ (pc = "done" /\ outcome = "fail_safe") => CleanupReturned = {}
    /\ (pc = "done" /\ outcome = "success") => CleanupReturned = {Len(log)}
    /\ CleanupReturned # {} => (pc = "done" /\ outcome = "success")

C6_Witness ==
  /\ entry = GPT4Safe
  /\ pc = "done"
  /\ outcome = "success"
  /\ nCleanup = 2
  /\ CleanupRaised = {1}

\* C7: in every retry entry point, each func_clean_up call is immediately
\* preceded, in the same attempt, by a func_validate call on the same
\* candidate and prompt that returned true.
C7_CleanupOnlyAfterValidation ==
  [][nCleanup' # nCleanup
       => /\ lastCall = "validate"
          /\ vArg.result = "true"
          /\ vArg.attempt = cArg'.attempt
          /\ vArg.cand = cArg'.cand
          /\ vArg.prompt = cArg'.prompt
          /\ LastAttempt.validate = "true"]_vars

C7_Witness ==
  /\ entry = SafeGenerate
  /\ nCleanup = 1
  /\ cArg.attempt = 2
  /\ vArg.result = "true"
  /\ vArg.cand = cArg.cand

\* The values of "output" in a text made of leading prose, one well-formed
\* object payload holding "output", and trailing prose.
WrappedOutputs(text) ==
  { pv[2] : pv \in { x \in OutputPayloadValues :
                       \E l \in Leads, t \in Trails : text = l \o x[1] \o t } }

\* C8: for a response made of leading prose, one well-formed object payload
\* holding "output", and trailing prose, extraction yields the value of
\* "output" as the candidate passed to validate.
C8_ExtractionTolerantOfProse ==
  (/\ entry \in Extracting
   /\ log # <<>>
   /\ reply.fault = "none"
   /\ reply.content.type = "str"
   /\ pc # "extract")
    => \A v \in WrappedOutputs(reply.content.text) :
         /\ LastAttempt.extract = "ok"
         /\ pc = "validate" => curr_gpt_response = v
         /\ vArg.attempt # 0 => vArg.cand = v

NoClosingBrace(text) == \A j \in 1..Len(text) : text[j] # RBRACE

\* The latest transport call failed, or its response has no closing brace,
\* does not parse, or lacks the field "output".
UnusableReply ==
  \/ reply.fault # "none"
  \/ reply.content.type # "str"
  \/ NoClosingBrace(reply.content.text)
  \/ ExtractOutput(Strip(reply.content.text)).raised

\* C9: in ChatGPT_safe_generate_response and GPT4_safe_generate_response an
\* attempt whose transport call failed, or whose response has no closing
\* brace, does not parse or lacks "output", consumes exactly one attempt and
\* invokes neither validate nor cleanup; the failure sentinel is never
\* handed to validate or cleanup.
C9_UnusableAttemptSkipsCallbacks ==
  entry \in Extracting =>
    /\ \A k \in Attempts :
         (log[k].transport = "fail" \/ log[k].extract = "raise")
           => (log[k].validate = "none" /\ log[k].cleanup = "none")
    /\ (log # <<>> /\ UnusableReply)
         => /\ LastAttempt.validate = "none"
            /\ LastAttempt.cleanup = "none"
            /\ vArg = NoCall
            /\ cArg = NoCall
            /\ pc \in {"extract", "loop", "done"}
    /\ reply.fault # "none"
         => (raw = PyStr(ChatGPTError) /\ curr_gpt_response # vArg.cand
             /\ curr_gpt_response # cArg.cand)
    /\ pc = "loop" => i = Len(log)
    /\ pc \in {"extract", "validate", "cleanup"} => i + 1 = Len(log)
    /\ nCreate = Len(log)

C9_Witness ==
  /\ entry = GPT4Safe
  /\ Len(log) = 2
  /\ log[1].transport = "fail"
  /\ log[1].validate = "none"
  /\ i = 1
  /\ pc = "validate"

\* C10: GPT4_request never raises: on every kind of transport failure it
\* returns the sentinel "ChatGPT ERROR", on success the completion text, and
\* it makes one create call per request.
C10_GPT4RequestNeverRaises ==
  (entry = GPT4Safe /\ log # <<>>) =>
    /\ raw.type # "exception"
    /\ reply.fault # "none" => raw = PyStr(ChatGPTError)
    /\ reply.fault = "none" => raw = reply.content
    /\ nCreate = Len(log)

C10_Witness ==
  /\ entry = GPT4Safe
  /\ log # <<>>
  /\ reply.fault = "Exception"
  /\ raw = PyStr(ChatGPTError)

RunShape ==
  entry \in Extracting =>
    /\ pc \in {"loop", "extract", "validate", "cleanup", "done"}
    /\ outcome \in {"none", "success", "fail_safe"}
    /\ (pc = "done") <=> (outcome # "none")
    /\ nCreate = Len(log)
    /\ nCreate <= repeat
    /\ pc = "loop" => i = Len(log)
    /\ pc \in {"extract", "validate", "cleanup"} => i + 1 = Len(log)
    /\ outcome = "success" =>
         /\ LastAttempt.cleanup = "ret"
         /\ \A a \in Attempts : a # Len(log) => log[a].cleanup # "ret"
    /\ outcome = "fail_safe" =>
         /\ Len(log) = repeat
         /\ \A a \in Attempts : log[a].cleanup # "ret"

\* C16: every run of ChatGPT_safe_generate_response and
\* GPT4_safe_generate_response ends, as Succeeded or as FailedSafe, after at
\* most repeat transport calls; a failure at any stage leads to the next
\* attempt and attempts never overlap.
C16_RunTerminates ==
  /\ []RunShape
  /\ <>(entry \in Extracting => pc = "done")

C16_Witness ==
  /\ entry = ChatGPTSafe
  /\ pc = "done"
  /\ outcome = "fail_safe"
  /\ nCreate = repeat
  /\ \E a \in Attempts : log[a].extract = "raise"
  /\ \E a \in Attempts : log[a].validate \in {"false", "raise"}
  /\ \E a \in Attempts : log[a].cleanup = "raise"

\* C17: in safe_generate_response a raising func_validate is an attempt
\* failure: the exception does not reach the caller and the loop goes on.
C17_ValidateRaiseIsAttemptFailure ==
  (entry = SafeGenerate /\ lastCall = "validate" /\ vArg.result = "raise")
    => (pc = "loop" /\ outcome = "none")

\* C18: in safe_generate_response and ChatGPT_safe_generate_response_OLD an
\* attempt whose transport call failed is over at once: the sentinel is not
\* passed to func_validate or func_clean_up and is never the result.
C18_SentinelNeverValidated ==
  (entry \in {SafeGenerate, ChatGPTSafeOLD} /\ log # <<>> /\ reply.fault # "none")
    => /\ LastAttempt.validate = "none"
       /\ LastAttempt.cleanup = "none"
       /\ vArg = NoCall
       /\ outcome # "success"

----------------------------------------------------------------------------
(* generate_prompt                                                          *)

MaxTemplateLen == 3
MaxInputs == 2

\* The retry engine is not running.
EngineIdle ==
  /\ entry = "none"
  /\ repeat = 0
  /\ fail_safe_response = PyNone
  /\ prompt = <<>>
  /\ i = 0
  /\ pc = "idle"
  /\ curr_gpt_response = PyNone
  /\ ret = PyNone
  /\ outcome = "none"
  /\ reply = [fault |-> "none", content |-> PyNone]
  /\ raw = PyNone
  /\ log = <<>>
  /\ lastCall = "none"
  /\ vArg = NoCall
  /\ cArg = NoCall
  /\ nCreate = 0
  /\ nValidate = 0
  /\ nCleanup = 0

\* f"!<INPUT {count}>!"
Placeholder(count) == "!<INPUT " \o ToString(count) \o ">!"

CommentBlockMarker == "<commentblockmarker>###</commentblockmarker>"

\* tok in s
Contains(s, tok) == \E j \in 1..Len(s) : s[j] = tok

\* s.replace(tok, r): every occurrence, left to right; the inserted text is
\* not scanned again.
RECURSIVE Replace(_, _, _)
Replace(s, tok, r) ==
  IF s = <<>> THEN <<>>
  ELSE (IF Head(s) = tok THEN r ELSE <<Head(s)>>) \o Replace(Tail(s), tok, r)

\* s.split(sep): the list of the texts between the occurrences of sep.
RECURSIVE Split(_, _)
Split(s, sep) ==
  IF ~Contains(s, sep) THEN <<s>>
  ELSE LET j == CHOOSE k \in 1..Len(s) : s[k] = sep /\ \A m \in 1..(k - 1) : s[m] # sep
       IN <<SubSeq(s, 1, j - 1)>> \o Split(SubSeq(s, j + 1, Len(s)), sep)

\* if type(curr_input) == type("string"): curr_input = [curr_input]
AsList(ci) == IF ci.type = "str" THEN <<ci.items[1]>> ELSE ci.items

\* The replacements of lines 304-305 applied for the indices of order, in
\* that order.
RECURSIVE SubstituteInOrder(_, _, _)
SubstituteInOrder(p, inputs, order) ==
  IF order = <<>> THEN p
  ELSE SubstituteInOrder(Replace(p, Placeholder(Head(order)), inputs[Head(order) + 1]),
                         inputs, Tail(order))

\* for count, i in enumerate(curr_input): counts 0, 1, ... in ascending order.
Enumerate(inputs) == [k \in 1..Len(inputs) |-> k - 1]

\* Variant: the text after the last marker.
DocSegmentLast(parts) == parts[Len(parts)]
\* prompt.split(marker)[1]
DocSegment(parts) == parts[2]

\* Lines 306-307.
TrimDoc(p) ==
  IF Contains(p, CommentBlockMarker) THEN DocSegment(Split(p, CommentBlockMarker))
  ELSE p

generate_prompt(ci, file_text) ==
  LET inputs == AsList(ci)
      substituted == SubstituteInOrder(file_text, inputs, Enumerate(inputs))
  IN Strip(TrimDoc(substituted))

\* Sequences over S of length at most n.
SeqsUpTo(S, n) == UNION {[1..m -> S] : m \in 0..n}

TemplateChunks == {Placeholder(0), Placeholder(1), CommentBlockMarker, "a", WS}
Templates == SeqsUpTo(TemplateChunks, MaxTemplateLen)

InputTexts == {<<>>, <<"x">>, <<Placeholder(0)>>, <<Placeholder(1)>>, <<CommentBlockMarker>>}
CurrInputs ==
  {[type |-> "str", items |-> <<t>>] : t \in InputTexts}
    \cup {[type |-> "list", items |-> l] : l \in SeqsUpTo(InputTexts, MaxInputs)}

InitPrompt ==
  /\ EngineIdle
  /\ EmbedIdle
  /\ RequestIdle
  /\ SetupIdle
  /\ prompt_file \in Templates
  /\ curr_input \in CurrInputs
  /\ gp_pc = "call"
  /\ gp_ret = <<>>

GeneratePrompt ==
  /\ gp_pc = "call"
  /\ gp_ret' = generate_prompt(curr_input, prompt_file)
  /\ gp_pc' = "done"
  /\ UNCHANGED <<prompt_file, curr_input>>
  /\ UNCHANGED <<vars, embedVars, requestVars, setupVars>>

NextPrompt == GeneratePrompt

SpecPrompt == InitPrompt /\ [][NextPrompt]_promptVars

\* The indices whose placeholder occurs in the text.
PlaceholderIndices(s) == {n \in 0..MaxInputs : Contains(s, Placeholder(n))}

\* C12: for a template with placeholders for the indices 0..k-1 and an input
\* sequence of length k, whatever the input strings, the output of
\* generate_prompt holds no placeholder token for an index in 0..k-1.
C12_NoPlaceholderLeft ==
  LET k == Len(AsList(curr_input))
  IN (gp_pc = "done" /\ PlaceholderIndices(prompt_file) = 0..(k - 1))
       => \A n \in 0..(k - 1) : ~Contains(gp_ret, Placeholder(n))

\* The prompt after the replacements of lines 304-305.
Substituted ==
  SubstituteInOrder(prompt_file, AsList(curr_input), Enumerate(AsList(curr_input)))

MarkerPositions(s) == {j \in 1..Len(s) : s[j] = CommentBlockMarker}
FirstMarker(s) == CHOOSE j \in MarkerPositions(s) : \A k \in MarkerPositions(s) : j <= k

\* The text after the first marker, in full.
AfterFirstMarker(s) == SubSeq(s, FirstMarker(s) + 1, Len(s))

\* The text after the first marker, up to the next marker if there is one.
AfterFirstMarkerToNext(s) ==
  LET later == {j \in MarkerPositions(s) : j > FirstMarker(s)}
      end == IF later = {} THEN Len(s)
             ELSE (CHOOSE j \in later : \A k \in later : j <= k) - 1
  IN SubSeq(s, FirstMarker(s) + 1, end)

\* C13 as stated: for every template that holds the marker one or more
\* times, generate_prompt returns the trimmed text after the first marker in
\* full: nothing before that point is kept, nothing after it is dropped.
C13_TextAfterMarkerInFull ==
  (gp_pc = "done" /\ Contains(prompt_file, CommentBlockMarker))
    => gp_ret = Strip(AfterFirstMarker(Substituted))

\* C13 amended: when the prompt, after substitution, holds the marker,
\* generate_prompt returns the trimmed text between the first marker and the
\* next marker, or the end of the text when there is no next one; so the text
\* after the first marker is returned in full exactly when the marker occurs
\* once, and nothing before the first marker is ever kept.
C13_TextBetweenFirstTwoMarkers ==
  (gp_pc = "done" /\ Contains(Substituted, CommentBlockMarker))
    => /\ gp_ret = Strip(AfterFirstMarkerToNext(Substituted))
       /\ Cardinality(MarkerPositions(Substituted)) = 1
            => gp_ret = Strip(AfterFirstMarker(Substituted))

C13_Witness ==
  /\ gp_pc = "done"
  /\ prompt_file = <<CommentBlockMarker, "a", CommentBlockMarker>>
  /\ AsList(curr_input) = <<>>
  /\ gp_ret = <<"a">>

\* The orders in which the indices 0..k-1 can be taken.
IndexOrders(k) ==
  {o \in [1..k -> 0..(k - 1)] : \A a, b \in 1..k : a # b => o[a] # o[b]}

\* C19: applying the per-index replacements in any order of the indices gives
\* the same rendered string as applying them in ascending order, also when an
\* input holds the placeholder of another index.
C19_OrderIndependent ==
  gp_pc = "done" =>
    \A o \in IndexOrders(Len(AsList(curr_input))) :
      Strip(TrimDoc(SubstituteInOrder(prompt_file, AsList(curr_input), o))) = gp_ret

----------------------------------------------------------------------------
(* get_embedding                                                            *)

MaxTextLen == 3

NL == "\n"
SP == " "
ThisIsBlank == <<"this is blank">>

\* if not text: text = "this is blank", dropped.
OrBlankNever(t) == t
\* if not text: text = "this is blank"
OrBlank(t) == IF t = <<>> THEN ThisIsBlank ELSE t

\* The texts a caller embeds: characters, spaces and line breaks.
EmbedTexts == SeqsUpTo({"a", SP, NL}, MaxTextLen)

\* What client.embeddings.create does: it returns a response holding one
\* vector, or raises.
EmbedReplies == {"none"} \cup FaultKinds
Embedding == [type |-> "list", text |-> <<"vector">>]

InitEmbed ==
  /\ EngineIdle
  /\ PromptIdle
  /\ RequestIdle
  /\ SetupIdle
  /\ emb_text \in EmbedTexts
  /\ emb_local = emb_text
  /\ emb_pc = "call"
  /\ emb_sent = <<>>
  /\ emb_ret = PyNone

\* text = text.replace("\n", " "); if not text: text = "this is blank"
EmbedPrepare ==
  /\ emb_pc = "call"
  /\ emb_local' = OrBlank(Replace(emb_local, NL, <<SP>>))
  /\ emb_pc' = "request"
  /\ UNCHANGED <<emb_text, emb_sent, emb_ret>>
  /\ UNCHANGED <<vars, promptVars, requestVars, setupVars>>

\* response = client.embeddings.create(input=[text], model=model)
\* return response.data[0].embedding
EmbedRequest ==
  /\ emb_pc = "request"
  /\ emb_sent' = Append(emb_sent, emb_local)
  /\ \E f \in EmbedReplies :
       IF f = "none"
         THEN emb_ret' = Returned(Embedding) /\ emb_pc' = "done"
         ELSE emb_ret' = Raised(f) /\ emb_pc' = "raised"
  /\ UNCHANGED <<emb_text, emb_local>>
  /\ UNCHANGED <<vars, promptVars, requestVars, setupVars>>

NextEmbed == EmbedPrepare \/ EmbedRequest

SpecEmbed == InitEmbed /\ [][NextEmbed]_embedVars

\* The text with each line break replaced by a space, position by position.
LineBreaksAsSpaces(t) == [k \in 1..Len(t) |-> IF t[k] = NL THEN SP ELSE t[k]]

\* C14: get_embedding sends exactly one request, never with an empty text:
\* "this is blank" for an empty input, otherwise the input with each line
\* break replaced by a space; a failed request is raised to the caller and
\* not repeated.
C14_EmbeddingBlankHandling ==
  /\ Len(emb_sent) <= 1
  /\ emb_pc \in {"idle", "call", "request"} => emb_sent = <<>>
  /\ emb_pc \in {"done", "raised"} =>
       /\ Len(emb_sent) = 1
       /\ emb_sent[1] # <<>>
       /\ emb_text = <<>> => emb_sent[1] = ThisIsBlank
       /\ emb_text # <<>> => emb_sent[1] = LineBreaksAsSpaces(emb_text)
       /\ emb_pc = "done" => emb_ret = Returned(Embedding)
       /\ emb_pc = "raised" => (emb_ret.raised /\ emb_ret.value.type = "exception")

C14_Witness ==
  /\ emb_text = <<>>
  /\ emb_pc = "raised"
  /\ emb_sent = <<ThisIsBlank>>

----------------------------------------------------------------------------
(* GPT_request: the parameters sent                                         *)

\* d.get(key, default)
DictGet(d, key, default) == IF key \in DOMAIN d THEN d[key] ELSE default

\* model_mapping
model_mapping ==
  [e \in {"text-davinci-003", "text-davinci-002", "text-curie-001",
          "text-babbage-001", "text-ada-001"} |-> "gpt-3.5-turbo"]

\* model = engine, with no lookup in model_mapping.
MappedModelUnmapped(engine) == engine
\* model = model_mapping.get(engine, engine)
MappedModel(engine) == DictGet(model_mapping, engine, engine)

\* The second argument of each gpt_parameter.get(...) but the engine's,
\* written as the Python literal.
ParameterDefaults ==
  [temperature |-> "0.7", max_tokens |-> "150", top_p |-> "1",
   frequency_penalty |-> "0", presence_penalty |-> "0", stop |-> "None"]

\* The keyword arguments of client.chat.completions.create.
CreateArguments(gp) ==
  [model |-> MappedModel(DictGet(gp, "engine", "gpt-3.5-turbo")),
   temperature |-> DictGet(gp, "temperature", ParameterDefaults.temperature),
   max_tokens |-> DictGet(gp, "max_tokens", ParameterDefaults.max_tokens),
   top_p |-> DictGet(gp, "top_p", ParameterDefaults.top_p),
   frequency_penalty |->
     DictGet(gp, "frequency_penalty", ParameterDefaults.frequency_penalty),
   presence_penalty |->
     DictGet(gp, "presence_penalty", ParameterDefaults.presence_penalty),
   stop |-> DictGet(gp, "stop", ParameterDefaults.stop)]

\* The engine names a caller passes: the retired ones, current ones and one
\* the table does not know.
Engines ==
  {"text-davinci-003", "text-davinci-002", "text-curie-001", "text-babbage-001",
   "text-ada-001", "gpt-3.5-turbo", "gpt-4", "my-finetuned-model"}

\* A value a caller passes for each key, as the Python literal; "stream" is
\* a key of the legacy parameter sets that GPT_request does not read.
ParameterValues ==
  [temperature |-> "0", max_tokens |-> "50", top_p |-> "0.5",
   frequency_penalty |-> "0.2", presence_penalty |-> "0.1",
   stop |-> "['\\n']", stream |-> "False"]

\* The parameter sets: any of the keys may be absent.
ParameterSets ==
  { [k \in K |-> IF k = "engine" THEN e ELSE ParameterValues[k]] :
      K \in SUBSET ({"engine"} \cup DOMAIN ParameterValues), e \in Engines }

InitRequest ==
  /\ EngineIdle
  /\ PromptIdle
  /\ EmbedIdle
  /\ SetupIdle
  /\ gpt_parameter \in ParameterSets
  /\ gr_pc = "call"
  /\ gr_sent = <<>>
  /\ gr_reply = [fault |-> "none", content |-> PyNone]
  /\ gr_ret = PyNone

\* engine = ...; model = ...; the keyword arguments are evaluated.
RequestArguments ==
  /\ gr_pc = "call"
  /\ gr_sent' = Append(gr_sent, CreateArguments(gpt_parameter))
  /\ gr_pc' = "create"
  /\ UNCHANGED <<gpt_parameter, gr_reply, gr_ret>>
  /\ UNCHANGED <<vars, promptVars, embedVars, setupVars>>

\* response = client.chat.completions.create(...); return ...content
\* except Exception: return "TOKEN LIMIT EXCEEDED"
RequestCreate ==
  /\ gr_pc = "create"
  /\ \E rep \in {r \in Replies : r.content \in {PyNone, PyStr(<<"no", WS, "answer">>)}} :
       /\ gr_reply' = rep
       /\ gr_ret' = GPT_request(rep)
       /\ gr_pc' = IF GPT_request(rep).raised THEN "raised" ELSE "done"
  /\ UNCHANGED <<gpt_parameter, gr_sent>>
  /\ UNCHANGED <<vars, promptVars, embedVars, setupVars>>

NextRequest == RequestArguments \/ RequestCreate

SpecRequest == InitRequest /\ [][NextRequest]_requestVars

RetiredEngines ==
  {"text-davinci-003", "text-davinci-002", "text-curie-001", "text-babbage-001",
   "text-ada-001"}

\* C15: GPT_request sends model gpt-3.5-turbo when the engine is a retired
\* name or is absent and the engine name itself otherwise; every other
\* parameter is the caller's value or, when absent, its default; whatever is
\* absent, the request is made and the call returns.
C15_LegacyEngineRemapping ==
  /\ gr_pc # "raised"
  /\ gr_pc = "call" => gr_sent = <<>>
  /\ gr_pc \in {"create", "done"} =>
       /\ Len(gr_sent) = 1
       /\ "engine" \notin DOMAIN gpt_parameter => gr_sent[1].model = "gpt-3.5-turbo"
       /\ "engine" \in DOMAIN gpt_parameter =>
            /\ gpt_parameter.engine \in RetiredEngines
                 => gr_sent[1].model = "gpt-3.5-turbo"
            /\ gpt_parameter.engine \notin RetiredEngines
                 => gr_sent[1].model = gpt_parameter.engine
       /\ \A k \in DOMAIN ParameterDefaults :
            gr_sent[1][k] = IF k \in DOMAIN gpt_parameter THEN gpt_parameter[k]
                            ELSE ParameterDefaults[k]
  /\ (gr_pc = "done" /\ gr_reply.fault = "none") => gr_ret = Returned(gr_reply.content)

C15_Witness ==
  /\ gr_pc = "done"
  /\ DOMAIN gpt_parameter = {"engine"}
  /\ gpt_parameter.engine = "text-curie-001"
  /\ gr_sent[1].model = "gpt-3.5-turbo"
  /\ gr_reply.fault = "none"
  /\ gr_ret = Returned(PyStr(<<"no", WS, "answer">>))

----------------------------------------------------------------------------
(* validate_setup.main                                                      *)

PyTrue == [type |-> "bool", text |-> <<"True">>]
PyBool(b) == IF b THEN PyTrue ELSE PyFalse

\* check_python_version: False below Python 3.9.
check_python_version(version) ==
  IF version.major < 3 \/ (version.major = 3 /\ version.minor < 9)
    THEN PyFalse
    ELSE PyTrue

\* check_dependencies: all_ok is cleared by an ImportError only; an older
\* version or any other exception is a warning.
check_dependencies(packages) ==
  PyBool(\A p \in {"openai", "django"} : packages[p] # "ImportError")

\* check_utils_file
check_utils_file(utils) ==
  IF utils.import # "ok" THEN PyFalse
  ELSE IF utils.missing THEN PyFalse
  ELSE IF utils.use_openrouter = "True"
    THEN (IF utils.openrouter_api_key \in {"absent", "template"} THEN PyFalse
          ELSE PyTrue)
  ELSE IF utils.openai_api_key \in {"absent", "template"} THEN PyFalse
  ELSE PyTrue

\* test_api_call: the value returned and the requests made.  A name that
\* utils.py does not define is a NameError, caught like any other exception.
test_api_call(env) ==
  IF env.packages["openai"] = "ImportError" \/ env.utils.import # "ok"
    THEN [value |-> PyFalse, calls |-> <<>>]
  ELSE IF env.utils.use_openrouter = "absent"
    THEN [value |-> PyFalse, calls |-> <<>>]
  ELSE IF env.utils.use_openrouter = "True" /\ env.utils.openrouter_api_key = "absent"
    THEN [value |-> PyFalse, calls |-> <<>>]
  ELSE IF env.utils.use_openrouter = "False" /\ env.utils.openai_api_key = "absent"
    THEN [value |-> PyFalse, calls |-> <<>>]
  ELSE [value |-> PyBool(env.api = "ok"), calls |-> <<"create">>]

\* all(r[1] for r in results)
All(rs) == \A k \in 1..Len(rs) : rs[k][2] = PyTrue

\* The API test is made whatever the checks returned.
ApiTestDueAlways(rs) == TRUE
\* if all(r[1] for r in results): the API test is due.
ApiTestDue(rs) == All(rs)

\* The interpreters, package states, utils.py files and endpoints tried.
Versions == [major : {2, 3, 4}, minor : {8, 9, 10}]
PackageStates == {"ok", "old", "ImportError", "Exception"}
KeyStates == {"absent", "template", "set"}
UtilsFiles ==
  [import : {"ok", "ImportError", "Exception"}, missing : BOOLEAN,
   use_openrouter : {"absent", "False", "True"},
   openrouter_api_key : KeyStates, openai_api_key : KeyStates]
Environments ==
  [version : Versions, packages : [{"openai", "django"} -> PackageStates],
   utils : UtilsFiles, api : {"ok", "APIError", "Exception"}]

InitSetup ==
  /\ EngineIdle
  /\ PromptIdle
  /\ EmbedIdle
  /\ RequestIdle
  /\ setup_env \in Environments
  /\ results = <<>>
  /\ vs_pc = "python"
  /\ vs_calls = <<>>
  /\ vs_exit = PyNone

\* results.append(("Python Version", check_python_version()))
MainPythonVersion ==
  /\ vs_pc = "python"
  /\ results' = Append(results, <<"Python Version", check_python_version(setup_env.version)>>)
  /\ vs_calls' = Append(vs_calls, "check_python_version")
  /\ vs_pc' = "dependencies"
  /\ UNCHANGED <<setup_env, vs_exit>>
  /\ UNCHANGED <<vars, promptVars, embedVars, requestVars>>

\* results.append(("Dependencies", check_dependencies()))
MainDependencies ==
  /\ vs_pc = "dependencies"
  /\ results' = Append(results, <<"Dependencies", check_dependencies(setup_env.packages)>>)
  /\ vs_calls' = Append(vs_calls, "check_dependencies")
  /\ vs_pc' = "configuration"
  /\ UNCHANGED <<setup_env, vs_exit>>
  /\ UNCHANGED <<vars, promptVars, embedVars, requestVars>>

\* results.append(("Configuration", check_utils_file()))
MainConfiguration ==
  /\ vs_pc = "configuration"
  /\ results' = Append(results, <<"Configuration", check_utils_file(setup_env.utils)>>)
  /\ vs_calls' = Append(vs_calls, "check_utils_file")
  /\ vs_pc' = "api"
  /\ UNCHANGED <<setup_env, vs_exit>>
  /\ UNCHANGED <<vars, promptVars, embedVars, requestVars>>

\* if all(...): results.append(("API Connection", test_api_call()))
MainApiTest ==
  /\ vs_pc = "api"
  /\ ApiTestDue(results)
  /\ results' = Append(results, <<"API Connection", test_api_call(setup_env).value>>)
  /\ vs_calls' = vs_calls \o <<"test_api_call">> \o test_api_call(setup_env).calls
  /\ vs_pc' = "summary"
  /\ UNCHANGED <<setup_env, vs_exit>>
  /\ UNCHANGED <<vars, promptVars, embedVars, requestVars>>

\* else: results.append(("API Connection", None))
MainApiSkip ==
  /\ vs_pc = "api"
  /\ ~ApiTestDue(results)
  /\ results' = Append(results, <<"API Connection", PyNone>>)
  /\ vs_pc' = "summary"
  /\ UNCHANGED <<setup_env, vs_calls, vs_exit>>
  /\ UNCHANGED <<vars, promptVars, embedVars, requestVars>>

\* if all(r[1] for r in results): return 0 / else: return 1
MainReturn ==
  /\ vs_pc = "summary"
  /\ vs_exit' = IF All(results) THEN 0 ELSE 1
  /\ vs_pc' = "done"
  /\ UNCHANGED <<setup_env, results, vs_calls>>
  /\ UNCHANGED <<vars, promptVars, embedVars, requestVars>>

NextSetup ==
  \/ MainPythonVersion
  \/ MainDependencies
  \/ MainConfiguration
  \/ MainApiTest
  \/ MainApiSkip
  \/ MainReturn

SpecSetup == InitSetup /\ [][NextSetup]_setupVars

\* The calls of a kind among the calls made.
CallsOf(kind) == {k \in 1..Len(vs_calls) : vs_calls[k] = kind}

\* C20: main runs the three checks whatever each returns, runs the API test
\* exactly when all three returned True and otherwise records it as skipped
\* without a request, and returns 0 exactly when all four returned True.
C20_MainRunsChecksAndExitStatus ==
  vs_pc = "done" =>
    /\ Len(results) = 4
    /\ <<results[1][1], results[2][1], results[3][1], results[4][1]>>
         = <<"Python Version", "Dependencies", "Configuration", "API Connection">>
    /\ SubSeq(vs_calls, 1, 3)
         = <<"check_python_version", "check_dependencies", "check_utils_file">>
    /\ results[1][2] = check_python_version(setup_env.version)
    /\ results[2][2] = check_dependencies(setup_env.packages)
    /\ results[3][2] = check_utils_file(setup_env.utils)
    /\ (CallsOf("test_api_call") # {})
         <=> (\A k \in 1..3 : results[k][2] = PyTrue)
    /\ Cardinality(CallsOf("test_api_call")) <= 1
    /\ CallsOf("test_api_call") # {} => results[4][2] = test_api_call(setup_env).value
    /\ CallsOf("test_api_call") = {} =>
         (results[4][2] = PyNone /\ CallsOf("create") = {})
    /\ vs_exit \in {0, 1}
    /\ (vs_exit = 0) <=> (\A k \in 1..4 : results[k][2] = PyTrue)

C20_Witness ==
  /\ vs_pc = "done"
  /\ results[1][2] = PyFalse
  /\ results[2][2] = PyTrue
  /\ results[3][2] = PyFalse
  /\ results[4][2] = PyNone
  /\ vs_calls = <<"check_python_version", "check_dependencies", "check_utils_file">>
  /\ vs_exit = 1

====
